---- MODULE Spec2Model ----
(***************************************************************************)
(* The clustering job pipeline of sploot-media-clustering:                 *)
(*   - the Redis stream, its consumer group and the dead-letter stream,    *)
(*   - ClusterService (services/clustering.py): enqueue_job, consumer      *)
(*     group creation, the per-pet state store,                            *)
(*   - the worker (workers/run_worker.py): consume_jobs, handle_job,       *)
(*     _retry_or_deadletter, record_stream_metrics,                        *)
(*   - the insights client (services/storage.py) and the clustering        *)
(*     engine (services/clustering_engine.py) as handle_job uses them.     *)
(*                                                                         *)
(* One step of a worker is one awaited call of the code together with the  *)
(* local computation that follows it up to the next awaited call.          *)
(* Under Spec the Redis stream commands (XADD, XACK, XREADGROUP, XGROUP     *)
(* CREATE, XPENDING) succeed; SETEX (persist_cluster_state) and the HTTP   *)
(* calls may fail.  SpecStop adds a worker process that ends at any point, *)
(* an XADD of the failure path that raises and an XGROUP CREATE that       *)
(* raises.  SpecTrim is Spec configured with a small cluster_stream_maxlen.*)
(* SpecGauge is Spec with XPENDING inspections that may raise.             *)
(* FairSpec is Spec with a worker loop that keeps running.  SpecMulti runs *)
(* two workers on the one consumer group.  SpecStore is the state store    *)
(* with persists, the two state routes and time passing.  SpecEngine is    *)
(* one call of ClusteringEngine.cluster_images on small inputs.            *)
(***************************************************************************)
EXTENDS Integers, Sequences, FiniteSets, TLC

(***************************************************************************)
(* Settings (config.py) and literals of the code.                          *)
(***************************************************************************)
cluster_max_attempts == 5
cluster_read_count == 16
cluster_stream_maxlen == 10000
cluster_ttl_seconds == 86400
max_cluster_size == 24
clustering_min_samples == 2
\* identity_eps = 0.15 (run_worker.py:244), in hundredths
identity_eps_x100 == 15

(***************************************************************************)
(* Bounds of the model.                                                    *)
(***************************************************************************)
\* jobs submitted through enqueue_job
MaxJobs == 1
\* entries written to the stream by others than ClusterService and the worker
MaxForeign == 1
\* the largest cluster_stream_maxlen configured where trimming is looked at
MaxTrim == 2
\* the largest number of images given to the clustering engine on its own
MaxImages == 3

(***************************************************************************)
(* Processes.  Every process holds its own ClusterService instance.        *)
(* Workers1 are the workers running under Spec.                            *)
(***************************************************************************)
Workers == {"w1", "w2"}
Workers1 == {"w1"}
Api == "api"
Procs == Workers \cup {Api}

None == "None"

Results == {"success", "invalid", "skipped", "retry", "dead_letter", "failure"}

(***************************************************************************)
(* Job envelopes and their JSON text.                                      *)
(* A stream entry's "payload" field is a text: kind "absent" is an entry   *)
(* without the field, "notjson" a text json.loads rejects, "nonobject" a   *)
(* JSON text of a value that is no object (list, number, string, null),    *)
(* "object" the JSON text of the envelope env.  pet_id is None when the    *)
(* key is missing.  attempts is always an integer here.                    *)
(***************************************************************************)
\* job_id 0 stands for a missing job_id
NoEnv == [job_id |-> 0, pet_id |-> None, payload |-> None, attempts |-> 0,
          enqueued_at |-> None]

AbsentText == [kind |-> "absent", env |-> NoEnv]
NotJsonText == [kind |-> "notjson", env |-> NoEnv]
NonObjectText == [kind |-> "nonobject", env |-> NoEnv]

JsonDumps(env) == [kind |-> "object", env |-> env]

\* json.loads(payload["payload"]): raises KeyError / JSONDecodeError, or
\* returns the value
JsonLoads(text) ==
  CASE text.kind = "absent" -> [raises |-> "KeyError", isdict |-> FALSE, env |-> NoEnv]
    [] text.kind = "notjson" -> [raises |-> "JSONDecodeError", isdict |-> FALSE, env |-> NoEnv]
    [] text.kind = "nonobject" -> [raises |-> None, isdict |-> FALSE, env |-> NoEnv]
    [] OTHER -> [raises |-> None, isdict |-> TRUE, env |-> text.env]

\* json.loads(payload.get("payload", "{}")) of consume_jobs: a missing field
\* reads as the empty object; a JSONDecodeError gives {"payload": <text>}
FailureEnvelope(text) ==
  CASE text.kind = "absent" -> [isdict |-> TRUE, env |-> NoEnv]
    [] text.kind = "notjson" -> [isdict |-> TRUE, env |-> [NoEnv EXCEPT !.payload = "raw"]]
    [] text.kind = "nonobject" -> [isdict |-> FALSE, env |-> NoEnv]
    [] OTHER -> [isdict |-> TRUE, env |-> text.env]

\* int(pet_id): pet ids that are decimal texts convert, others raise
NumericPets == {"1"}
OtherPets == {"pet-xyz"}
PetIntRaises(p) ==
  IF p = None THEN "TypeError" ELSE IF p \in NumericPets THEN None ELSE "ValueError"


(***************************************************************************)
(* The insights service as seen through StorageClient (storage.py).        *)
(***************************************************************************)
\* the image ids the service may list; int("img-a") raises
NumericImages == {"10", "11"}
ImageIntRaises(i) == IF i \in NumericImages THEN None ELSE "ValueError"

\* unit-norm embeddings: the two axis vectors
E1 == <<1, 0>>
E2 == <<0, 1>>

\* what fetch_insight returns for one image: ok = FALSE is None (the request
\* failed and the exception was swallowed, storage.py:83-86)
NoInsight == [ok |-> FALSE, has_embedding |-> FALSE, embedding |-> <<>>]
InsightRecords ==
  { [ok |-> TRUE, has_embedding |-> FALSE, embedding |-> <<>>],
    [ok |-> TRUE, has_embedding |-> TRUE, embedding |-> <<>>],
    [ok |-> TRUE, has_embedding |-> TRUE, embedding |-> E1],
    [ok |-> TRUE, has_embedding |-> TRUE, embedding |-> E2] }

\* the listings GET /pets/{id}/images-with-embeddings may answer
Listings == { <<>>, <<"10">>, <<"10", "11">>, <<"10", "img-a">> }

\* fetch_pet_images_with_embeddings: any exception gives the empty list
FetchPetImages(http_ok, listing) == IF http_ok THEN listing ELSE <<>>

\* fetch_insights_batch: failed fetches (None) are omitted from the result;
\* the result maps image id -> record, here a function over the kept ids
FetchInsightsBatch(image_ids, answers) ==
  [ i \in { k \in 1 .. Len(image_ids) : answers[k].ok } |-> answers[i] ]

(***************************************************************************)
(* ClusteringEngine.cluster_images (clustering_engine.py).  Embeddings are *)
(* integer vectors of unit norm; distances and scores are in hundredths.   *)
(***************************************************************************)
Dot(u, v) == u[1] * v[1] + u[2] * v[2]

\* cosine distance of unit vectors, times 100
Dist100(u, v) == 100 - 100 * Dot(u, v)

RECURSIVE SumSeq(_)
SumSeq(s) == IF s = <<>> THEN 0 ELSE Head(s) + SumSeq(Tail(s))

\* DBSCAN on the precomputed distances: the eps-neighbourhood of a point
\* (itself included) and the core points
Neigh(embs, i, eps100) == { j \in 1 .. Len(embs) : Dist100(embs[i], embs[j]) <= eps100 }
IsCore(embs, i, eps100, min_samples) == Cardinality(Neigh(embs, i, eps100)) >= min_samples

\* the unlabelled points a cluster seeded at S reaches through core points
RECURSIVE Reach(_, _, _, _, _)
Reach(embs, S, labels, eps100, min_samples) ==
  LET more == { j \in 1 .. Len(embs) :
                  /\ labels[j] = -1
                  /\ \E i \in S : IsCore(embs, i, eps100, min_samples)
                                  /\ j \in Neigh(embs, i, eps100) }
  IN IF more \subseteq S THEN S
     ELSE Reach(embs, S \cup more, labels, eps100, min_samples)

\* labels of sklearn's dbscan_inner: points are visited in input order, each
\* unlabelled core point seeds the next label; -1 is noise
RECURSIVE DbscanLabels(_, _, _, _, _, _)
DbscanLabels(embs, i, labels, next, eps100, min_samples) ==
  IF i > Len(embs) THEN labels
  ELSE IF labels[i] # -1 \/ ~IsCore(embs, i, eps100, min_samples)
       THEN DbscanLabels(embs, i + 1, labels, next, eps100, min_samples)
       ELSE LET members == Reach(embs, {i}, labels, eps100, min_samples)
            IN DbscanLabels(embs, i + 1,
                            [ k \in 1 .. Len(embs) |->
                                IF k \in members /\ labels[k] = -1 THEN next ELSE labels[k] ],
                            next + 1, eps100, min_samples)

\* the input positions carrying label L, in input order
RECURSIVE MaskedPositions(_, _, _)
MaskedPositions(labels, L, i) ==
  IF i > Len(labels) THEN <<>>
  ELSE IF labels[i] = L THEN <<i>> \o MaskedPositions(labels, L, i + 1)
       ELSE MaskedPositions(labels, L, i + 1)

\* the integer part of a square root, and the next decimal digit of a root:
\* the integer part of the root of n, given r, that of the root of n / 100
ISqrt(n) == CHOOSE r \in 0 .. n : r * r <= n /\ n < (r + 1) * (r + 1)
NextDigit(n, r) ==
  CHOOSE q \in (10 * r) .. (10 * r + 9) : q * q <= n /\ n < (q + 1) * (q + 1)

\* np.linalg.norm of an integer vector, times 100 (integer part)
Norm100(v) ==
  NextDigit(10000 * Dot(v, v), NextDigit(100 * Dot(v, v), ISqrt(Dot(v, v))))

\* similarities = cluster_embeddings @ (mean / |mean|), times 100
Similarities(vecs) ==
  LET total == <<SumSeq([ k \in 1 .. Len(vecs) |-> vecs[k][1] ]),
                 SumSeq([ k \in 1 .. Len(vecs) |-> vecs[k][2] ])>>
  IN [ k \in 1 .. Len(vecs) |-> (10000 * Dot(vecs[k], total)) \div Norm100(total) ]

\* the orders in which a sort that is not stable may leave n equal keys: the
\* permutations of the input positions 1 .. n
TieOrders(n) ==
  { prio \in [1 .. n -> 1 .. n] : \A a, b \in 1 .. n : prio[a] = prio[b] => a = b }
StableOrder(n) == [ k \in 1 .. n |-> k ]
TieRank(prio, i) == CHOOSE r \in 1 .. Len(prio) : prio[r] = i

\* np.argsort(-similarities): descending.  The default kind is "quicksort",
\* which numpy does not promise to be stable: among equal scores the input
\* positions pos[i] come out in the order prio lists them
RECURSIVE ArgsortDesc(_, _, _, _)
ArgsortDesc(sims, left, pos, prio) ==
  IF left = {} THEN <<>>
  ELSE LET best == CHOOSE i \in left :
                     \A j \in left :
                       \/ sims[i] > sims[j]
                       \/ /\ sims[i] = sims[j]
                          /\ TieRank(prio, pos[i]) <= TieRank(prio, pos[j])
       IN <<best>> \o ArgsortDesc(sims, left \ {best}, pos, prio)

Letters == <<"A", "B", "C", "D", "E", "F", "G", "H">>
\* _infer_label with use_identity = True
InferLabel(L) == "Pet " \o Letters[L + 1]

\* no limit on the cluster size
Truncate_None(s, n) == s

\* ranked_indices[: max_cluster_size]
Truncate(s, n) == IF Len(s) > n THEN SubSeq(s, 1, n) ELSE s

\* one ClusterResult, for label L
ClusterResult(image_ids, embs, labels, L, cap, prio) ==
  LET pos == MaskedPositions(labels, L, 1)
      cluster_image_ids == [ k \in 1 .. Len(pos) |-> image_ids[pos[k]] ]
      sims == Similarities([ k \in 1 .. Len(pos) |-> embs[pos[k]] ])
      ranked == Truncate(ArgsortDesc(sims, 1 .. Len(pos), pos, prio), cap)
      kept == [ k \in 1 .. Len(ranked) |-> cluster_image_ids[ranked[k]] ]
  IN [ cluster_id |-> L,
       label |-> InferLabel(L),
       hero_image_id |-> kept[1],
       members |-> [ k \in 1 .. Len(ranked) |->
                       [image_id |-> kept[k], score |-> sims[ranked[k]], position |-> k - 1] ],
       quality_score |-> SumSeq([ k \in 1 .. Len(ranked) |-> sims[ranked[k]] ]) \div Len(ranked) ]

\* the two checks in the other order
Precheck_MinFirst(nids, nrows, min_samples) ==
  IF nids < min_samples THEN "empty"
  ELSE IF nids # nrows THEN "ValueError"
  ELSE "cluster"

\* cluster_images, lines 65-70: the length check comes first, then the
\* check for too few images
Precheck(nids, nrows, min_samples) ==
  IF nids # nrows THEN "ValueError"
  ELSE IF nids < min_samples THEN "empty"
  ELSE "cluster"

\* too few images treated as an error
InsufficientSamples_Raises == [raises |-> "ValueError", clusters |-> <<>>]

\* cluster_images, lines 68-70: return []
InsufficientSamples == [raises |-> None, clusters |-> <<>>]

\* cluster_images: raises ValueError on mismatched lengths; the clusters are
\* listed by ascending label (the order of set(labels) for small integers)
ClusterImages(image_ids, embs, eps100, min_samples, cap, prio) ==
  IF Precheck(Len(image_ids), Len(embs), min_samples) = "ValueError"
  THEN [raises |-> "ValueError", clusters |-> <<>>]
  ELSE IF Precheck(Len(image_ids), Len(embs), min_samples) = "empty"
  THEN InsufficientSamples
  ELSE LET labels == DbscanLabels(embs, 1, [ k \in 1 .. Len(embs) |-> -1 ], 0,
                                  eps100, min_samples)
           nlabels == Cardinality({ labels[k] : k \in 1 .. Len(embs) } \ {-1})
       IN [raises |-> None,
           clusters |-> [ n \in 1 .. nlabels |->
                            ClusterResult(image_ids, embs, labels, n - 1, cap, prio) ]]


(***************************************************************************)
(* State.                                                                  *)
(***************************************************************************)
VARIABLES
  stream,          \* the main stream: sequence of [id, text]
  last_id,         \* the last entry id the main stream generated
  dlq,             \* the dead-letter stream: sequence of [payload, error]
  group_exists,    \* the consumer group exists
  last_delivered,  \* the group's last-delivered id
  pel,             \* the group's pending entries: set of [id, consumer]
  group_ready,     \* ClusterService._group_ready, per process
  store,           \* the state store: key (pet id) -> JSON document or absent
  counters,        \* JOB_RESULT_COUNTER, by result label
  pending_gauge,   \* STREAM_PENDING_GAUGE
  submitted,       \* number of enqueue_job calls so far
  pc,              \* per worker: the awaited call it is at
  batch,           \* per worker: the messages of the last read still to handle
  loc,             \* per worker: the locals of handle_job / consume_jobs for
                   \* the current message, and what was done for it so far
  handled,         \* per main-stream entry id: how often handle_job got it
  raised,          \* per main-stream entry id: how often handle_job raised
  stream_maxlen,   \* settings.cluster_stream_maxlen as configured
  api,             \* the last call of a state route and what it answered
  written,         \* per key: the state last persisted and not invalidated
                   \* since, and the seconds passed since that persist
  eng,             \* a call of ClusteringEngine.cluster_images: its
                   \* arguments and, once it returned, its outcome
  lag_gauge,       \* STREAM_LAG_GAUGE
  xpending_exc     \* what the two pending inspections of the last
                   \* record_stream_metrics raised

vars == <<stream, last_id, dlq, group_exists, last_delivered, pel, group_ready,
          store, counters, pending_gauge, submitted, pc, batch, loc, handled, raised,
          stream_maxlen, api, written, eng, lag_gauge, xpending_exc>>

ConsumerName == "media-clustering-worker"

NoEntry == [id |-> 0, text |-> AbsentText]

ZeroMetrics == [num_clusters |-> 0, num_images |-> 0, avg_quality |-> 0]
NoState == [pet_id |-> None, clusters |-> <<>>, metrics |-> ZeroMetrics, updated_at |-> 0]
\* datetime.isoformat and datetime.fromisoformat
IsoFormat(t) == <<"iso", t>>
FromIsoFormat(text) == text[2]
\* a key of the store: absent, or the JSON text of a ClusterState with the
\* seconds it has left to live
NoDoc == [present |-> FALSE, doc |-> [NoState EXCEPT !.updated_at = IsoFormat(0)], ttl |-> 0]

\* entry, env, image_ids, state, updates, exc are locals of the code; crash
\* says an exception left the except block of consume_jobs.  The other
\* fields record what was done for the current message: the labels counted,
\* the acks, the publishes, the persists and posts, the failures met, the
\* usable embeddings found, the insight records asked for, the store as
\* it was when handle_job began, and the embeddings found usable.
NoLoc == [entry |-> NoEntry, env |-> NoEnv, image_ids |-> <<>>, state |-> NoState,
          updates |-> <<>>, exc |-> None, crash |-> FALSE,
          results |-> <<>>, acks |-> 0, republished |-> 0, deadlettered |-> 0,
          persisted |-> 0, persist_failed |-> FALSE, posted |-> 0, post_failed |-> 0,
          http_failed |-> FALSE, valid |-> 0, fetched |-> 0, store0 |-> [p \in NumericPets |-> NoDoc],
          embedded |-> <<>>]

(***************************************************************************)
(* Redis commands.                                                         *)
(***************************************************************************)
\* MAXLEN trimming keeps the newest entries
\* no trimming at all
Trim_Off(s, maxlen) == s

\* a trim that drops the oldest entry whenever there is more than one
Trim_DropsOldest(s, maxlen) == IF Len(s) > 1 THEN Tail(s) ELSE s

Trim(s, maxlen) == IF Len(s) > maxlen THEN SubSeq(s, Len(s) - maxlen + 1, Len(s)) ELSE s

\* XADD name fields MAXLEN maxlen
XAdd(s, id, text, maxlen) == Trim(Append(s, [id |-> id, text |-> text]), maxlen)

XAddDeadLetter(s, text, error, maxlen) ==
  Trim(Append(s, [payload |-> text, error |-> error]), maxlen)

RECURSIVE SelectAfter(_, _)
SelectAfter(s, id) ==
  IF s = <<>> THEN <<>>
  ELSE IF Head(s).id > id THEN s ELSE SelectAfter(Tail(s), id)

\* a read that starts at the head of the stream each time
XReadGroupNew_FromHead(s, after, count) == Truncate(s, count)

\* XREADGROUP ... COUNT count STREAMS key ">": the entries after the group's
\* last-delivered id, at most count
XReadGroupNew(s, after, count) == Truncate(SelectAfter(s, after), count)

\* an ack that does not reach the group
XAck_Lost(p, id) == p

\* XACK key group id
XAck(p, id) == { e \in p : e.id # id }

\* XPENDING key group: the summary's "pending" count
XPendingCount(p) == Cardinality(p)

\* XPENDING key group - + 1: the idle time of the oldest pending entry, in
\* seconds, at clock reading now; 0 stands for no pending entry.  The entry
\* with id k was delivered at a reading of 2 * k or later
OldestIdle(p, now) ==
  IF p = {} THEN 0
  ELSE LET oldest == CHOOSE e \in p : \A f \in p : e.id <= f.id
       IN now - 2 * oldest.id

\* neither pending inspection raised
NoXPendingExc == [summary |-> None, range |-> None]

Inc(c, label) == [c EXCEPT ![label] = @ + 1]

(***************************************************************************)
(* ClusterService (services/clustering.py).                                *)
(***************************************************************************)
\* ClusterState.to_dict + json.dumps, and json.loads + ClusterState.from_dict
StateToJson(state) ==
  [present |-> TRUE, doc |-> [state EXCEPT !.updated_at = IsoFormat(state.updated_at)]]
StateFromDict(doc) ==
  [pet_id |-> doc.pet_id, clusters |-> doc.clusters, metrics |-> doc.metrics,
   updated_at |-> FromIsoFormat(doc.updated_at)]

\* a plain SET: the key gets no expiry
SetEx_NoExpiry(st, key, seconds, value) ==
  [st EXCEPT ![key] = [present |-> TRUE, doc |-> value.doc, ttl |-> -1]]

\* SETEX key seconds value
SetEx(st, key, seconds, value) ==
  [st EXCEPT ![key] = [present |-> TRUE, doc |-> value.doc, ttl |-> seconds]]

\* the key of a pet's state: f"{namespace}:state:{pet_id}"
StateKey(pet_id) == pet_id

\* get_cluster_state: None (here NoState) when the key is absent
GetClusterState(st, pet_id) ==
  IF ~st[StateKey(pet_id)].present THEN NoState
  ELSE StateFromDict(st[StateKey(pet_id)].doc)

\* a persist that writes nothing
PersistClusterState_Dropped(st, state) == st

\* a persist that leaves a state with a later updated_at in place
PersistClusterState_KeepNewer(st, state) ==
  IF st[StateKey(state.pet_id)].present
     /\ FromIsoFormat(st[StateKey(state.pet_id)].doc.updated_at) > state.updated_at
  THEN st
  ELSE SetEx(st, StateKey(state.pet_id), cluster_ttl_seconds, StateToJson(state))

\* persist_cluster_state: SETEX key ttl json
PersistClusterState(st, state) ==
  SetEx(st, StateKey(state.pet_id), cluster_ttl_seconds, StateToJson(state))

\* what is known of a key: the state last persisted and not invalidated
\* since (live), and the seconds passed since that persist
\* since (live), the seconds passed since that persist, and whether an
\* invalidate removed the key since
NoWritten == [state |-> NoState, age |-> 0, live |-> FALSE, removed |-> FALSE]
Written(wr, state) ==
  [wr EXCEPT ![StateKey(state.pet_id)] =
                [state |-> state, age |-> 0, live |-> TRUE, removed |-> FALSE]]

\* an invalidate that answers but leaves the key in place
Invalidate_KeepsKey(st, pet_id) ==
  [st |-> st, deleted |-> IF st[StateKey(pet_id)].present THEN 1 ELSE 0]

\* invalidate: DEL key, which answers the number of keys removed
Invalidate(st, pet_id) ==
  [st |-> [st EXCEPT ![StateKey(pet_id)] = NoDoc],
   deleted |-> IF st[StateKey(pet_id)].present THEN 1 ELSE 0]

\* time passing in the store: d seconds later every key has d seconds less
\* to live, and a key whose time is up is gone; a key without expiry
\* (ttl = -1) stays
Expire(st, d) ==
  [ k \in DOMAIN st |->
      IF ~st[k].present \/ st[k].ttl = -1 THEN st[k]
      ELSE IF st[k].ttl > d THEN [st[k] EXCEPT !.ttl = @ - d]
      ELSE NoDoc ]

\* a group created at the end of the stream (id "$")
EnsureConsumerGroup_AtEnd(p) ==
  /\ group_ready' = [group_ready EXCEPT ![p] = TRUE]
  /\ group_exists' = (group_exists \/ ~group_ready[p])
  /\ last_delivered' = IF ~group_ready[p] /\ ~group_exists THEN last_id ELSE last_delivered

\* ensure_consumer_group, by process p: XGROUP CREATE ... id=0 MKSTREAM once
\* per process; BUSYGROUP is ignored
EnsureConsumerGroup(p) ==
  /\ group_ready' = [group_ready EXCEPT ![p] = TRUE]
  /\ group_exists' = (group_exists \/ ~group_ready[p])
  /\ last_delivered' = IF ~group_ready[p] /\ ~group_exists THEN 0 ELSE last_delivered

\* the envelope enqueue_job builds
NewEnvelope(job_id, pet_id, job_payload, attempts) ==
  [job_id |-> job_id, pet_id |-> pet_id, payload |-> job_payload,
   attempts |-> attempts, enqueued_at |-> "t"]

\* the job_payload dicts a caller passes: the dump of a ClusterJobRequest
\* (job_id None, no "attempts" key), and a dict that carries a job_id and an
\* "attempts" key
PlainPayload == "p"
CarriedPayload == "p+job_id+attempts"
JobPayloads == {PlainPayload, CarriedPayload}
GivenJobId == 456

\* int(job_payload.get("attempts", 0))
PayloadAttempts(job_payload) ==
  IF job_payload = CarriedPayload THEN cluster_max_attempts - 1 ELSE 0

\* job_payload.get("job_id") or uuid4().hex
PayloadJobId(job_payload, fresh) ==
  IF job_payload = CarriedPayload THEN GivenJobId ELSE fresh

\* enqueue_job(pet_id, job_payload)
Enqueue(pet_id, job_payload) ==
  /\ UNCHANGED <<stream_maxlen, api, written, eng, lag_gauge, xpending_exc>>
  /\ submitted < MaxJobs
  /\ EnsureConsumerGroup(Api)
  /\ LET text == JsonDumps(NewEnvelope(PayloadJobId(job_payload, submitted + 1),
                                       pet_id, job_payload,
                                       PayloadAttempts(job_payload)))
     IN /\ stream' = XAdd(stream, last_id + 1, text, stream_maxlen)
        /\ handled' = handled @@ ((last_id + 1) :> 0)
        /\ raised' = raised @@ ((last_id + 1) :> 0)
  /\ last_id' = last_id + 1
  /\ submitted' = submitted + 1
  /\ UNCHANGED <<dlq, pel, store, counters, pending_gauge, pc, batch, loc>>


(***************************************************************************)
(* The worker (workers/run_worker.py).                                     *)
(***************************************************************************)
\* str(error)
StrOfError(exc) == "error: " \o exc

\* job_payload.get("reason"): the pass-through payload must be a dict
\* (a missing "payload" key defaults to {})
PayloadGetRaises(job_payload) == IF job_payload = "raw" THEN "AttributeError" ELSE None

\* the filter of handle_job on a fetched insight record
Usable(insight) == insight.has_embedding /\ insight.embedding # <<>>

\* per listed image the embedding handle_job keeps, <<>> for none
Embedded(answers) ==
  [ k \in 1 .. Len(answers) |->
      IF answers[k].ok /\ Usable(answers[k]) THEN answers[k].embedding ELSE <<>> ]

\* the positions of image_ids kept as valid_ids, in listing order
RECURSIVE ValidPositions(_, _, _)
ValidPositions(image_ids, insights_data, i) ==
  IF i > Len(image_ids) THEN <<>>
  ELSE IF i \in DOMAIN insights_data /\ Usable(insights_data[i])
       THEN <<i>> \o ValidPositions(image_ids, insights_data, i + 1)
       ELSE ValidPositions(image_ids, insights_data, i + 1)

\* the members of all clusters, in the order handle_job walks them
RECURSIVE AllMembers(_)
AllMembers(results) ==
  IF results = <<>> THEN <<>>
  ELSE [ k \in 1 .. Len(Head(results).members) |->
           [image_id |-> Head(results).members[k].image_id,
            score |-> Head(results).members[k].score,
            position |-> Head(results).members[k].position,
            cluster |-> Head(results).cluster_id,
            label |-> Head(results).label,
            is_hero |-> Head(results).members[k].image_id = Head(results).hero_image_id] ]
       \o AllMembers(Tail(results))

\* int(member.image_id) while the insight updates are built
UpdatesRaise(results) ==
  IF \E k \in 1 .. Len(AllMembers(results)) :
        ImageIntRaises(AllMembers(results)[k].image_id) # None
  THEN "ValueError" ELSE None

\* insight_updates: one record per cluster member
InsightUpdates(pet_id, results) ==
  [ k \in 1 .. Len(AllMembers(results)) |->
      [source_image_id |-> AllMembers(results)[k].image_id,
       quality_score |-> AllMembers(results)[k].score,
       cluster_id |-> [pet |-> pet_id, cluster |-> AllMembers(results)[k].cluster],
       label |-> AllMembers(results)[k].label,
       position |-> AllMembers(results)[k].position,
       score |-> AllMembers(results)[k].score,
       is_hero |-> AllMembers(results)[k].is_hero] ]

\* the clusters list of the state
ClustersPayload(pet_id, results) ==
  [ n \in 1 .. Len(results) |->
      [id |-> [pet |-> pet_id, cluster |-> results[n].cluster_id],
       label |-> results[n].label,
       hero_image_id |-> results[n].hero_image_id,
       members |-> [ k \in 1 .. Len(results[n].members) |->
                       [image_id |-> results[n].members[k].image_id,
                        score |-> results[n].members[k].score,
                        position |-> results[n].members[k].position,
                        quality_score |-> results[n].members[k].score] ],
       quality_score |-> results[n].quality_score] ]

\* avg_quality taken as 100 where there is no cluster
JobMetrics_FullQuality(image_ids, results) ==
  [num_clusters |-> Len(results),
   num_images |-> Len(image_ids),
   avg_quality |-> IF results # <<>>
                   THEN SumSeq([ n \in 1 .. Len(results) |-> results[n].quality_score ])
                          \div Len(results)
                   ELSE 100]

\* the metrics of the state (timestamps left out)
JobMetrics(image_ids, results) ==
  [num_clusters |-> Len(results),
   num_images |-> Len(image_ids),
   avg_quality |-> IF results # <<>>
                   THEN SumSeq([ n \in 1 .. Len(results) |-> results[n].quality_score ])
                          \div Len(results)
                   ELSE 0]

\* ClusterState(pet_id=str(pet_id), clusters=clusters, metrics=metrics)
\* built at time now (the default of updated_at is datetime.now)
BuildState(pet_id, image_ids, results, now) ==
  [pet_id |-> pet_id, clusters |-> ClustersPayload(pet_id, results),
   metrics |-> JobMetrics(image_ids, results), updated_at |-> now]

\* the increment done twice
NextAttempts_Twice(env) == env.attempts + 2

\* _retry_or_deadletter: attempts = int(job_envelope.get("attempts", 0)) + 1
NextAttempts(env) == env.attempts + 1
\* the comparison off by one, either way
DeadLetterDue_Late(attempts) == attempts > cluster_max_attempts
DeadLetterDue_Early(attempts) == attempts >= cluster_max_attempts - 1

\* _retry_or_deadletter: if attempts >= settings.cluster_max_attempts
DeadLetterDue(attempts) == attempts >= cluster_max_attempts

CurId(w) == loc[w].entry.id

\* consume_jobs: await ensure_group(redis)
WorkerStart(w) ==
  /\ UNCHANGED <<stream_maxlen, api, written, eng, lag_gauge, xpending_exc>>
  /\ pc[w] = "start"
  /\ EnsureConsumerGroup(w)
  /\ pc' = [pc EXCEPT ![w] = "read"]
  /\ UNCHANGED <<stream, last_id, dlq, pel, store, counters, pending_gauge,
                 submitted, batch, loc, handled, raised>>

\* consume_jobs: response = await redis.xreadgroup(...); an empty response
\* loops
ReadGroup(w) ==
  /\ UNCHANGED <<stream_maxlen, api, written, eng, lag_gauge, xpending_exc>>
  /\ pc[w] = "read"
  /\ group_exists
  /\ LET msgs == XReadGroupNew(stream, last_delivered, cluster_read_count)
     IN /\ msgs # <<>>
        /\ batch' = [batch EXCEPT ![w] = msgs]
        /\ pel' = pel \cup { [id |-> msgs[k].id, consumer |-> ConsumerName] : k \in 1 .. Len(msgs) }
        /\ last_delivered' = msgs[Len(msgs)].id
  /\ pc' = [pc EXCEPT ![w] = "handle"]
  /\ UNCHANGED <<stream, last_id, dlq, group_exists, group_ready, store, counters,
                 pending_gauge, submitted, loc, handled, raised>>

\* JSONDecodeError not caught by handle_job
ParseOutcome_Uncaught(text) ==
  LET parsed == JsonLoads(text)
  IN IF parsed.raises = "KeyError" THEN [pc |-> "invalid_ack", exc |-> None]
     ELSE IF parsed.raises # None THEN [pc |-> "failed", exc |-> parsed.raises]
     ELSE IF ~parsed.isdict THEN [pc |-> "failed", exc |-> "AttributeError"]
     ELSE IF PetIntRaises(parsed.env.pet_id) # None
          THEN [pc |-> "failed", exc |-> PetIntRaises(parsed.env.pet_id)]
     ELSE [pc |-> "list", exc |-> None]

\* where handle_job goes with a message before its first awaited call
ParseOutcome(text) ==
  LET parsed == JsonLoads(text)
  IN IF parsed.raises # None THEN [pc |-> "invalid_ack", exc |-> None]
     ELSE IF ~parsed.isdict THEN [pc |-> "failed", exc |-> "AttributeError"]
     ELSE IF PayloadGetRaises(parsed.env.payload) # None
          THEN [pc |-> "failed", exc |-> PayloadGetRaises(parsed.env.payload)]
     ELSE IF PetIntRaises(parsed.env.pet_id) # None
          THEN [pc |-> "failed", exc |-> PetIntRaises(parsed.env.pet_id)]
     ELSE [pc |-> "list", exc |-> None]

\* consume_jobs takes the next message; handle_job parses it (lines 151-178)
BeginEntry(w) ==
  /\ UNCHANGED <<stream_maxlen, api, written, eng, lag_gauge, xpending_exc>>
  /\ pc[w] = "handle"
  /\ batch[w] # <<>>
  /\ LET m == Head(batch[w])
         out == ParseOutcome(m.text)
     IN /\ loc' = [loc EXCEPT ![w] = [NoLoc EXCEPT !.entry = m,
                                                  !.env = JsonLoads(m.text).env,
                                                  !.exc = out.exc,
                                                  !.store0 = store]]
        /\ pc' = [pc EXCEPT ![w] = out.pc]
        /\ handled' = [handled EXCEPT ![m.id] = @ + 1]
  /\ batch' = [batch EXCEPT ![w] = Tail(@)]
  /\ UNCHANGED <<stream, last_id, dlq, group_exists, last_delivered, pel, group_ready,
                 store, counters, pending_gauge, submitted, raised>>

\* handle_job, lines 157-160: ack the unparseable entry, count it invalid
InvalidAck(w) ==
  /\ UNCHANGED <<stream_maxlen, api, written, eng, lag_gauge, xpending_exc>>
  /\ pc[w] = "invalid_ack"
  /\ pel' = XAck(pel, CurId(w))
  /\ counters' = Inc(counters, "invalid")
  /\ loc' = [loc EXCEPT ![w].acks = @ + 1, ![w].results = Append(@, "invalid")]
  /\ pc' = [pc EXCEPT ![w] = "metrics"]
  /\ UNCHANGED <<stream, last_id, dlq, group_exists, last_delivered, group_ready,
                 store, pending_gauge, submitted, batch, handled, raised>>

\* the check for an empty listing left out
AfterListing_Unchecked(image_ids) == "insights"

\* handle_job, line 188: if not image_ids
AfterListing(image_ids) == IF image_ids = <<>> THEN "skip_ack" ELSE "insights"

\* handle_job, lines 177-188: the image listing
FetchListing(w) ==
  /\ UNCHANGED <<stream_maxlen, api, written, eng, lag_gauge, xpending_exc>>
  /\ pc[w] = "list"
  /\ \E http_ok \in BOOLEAN, listing \in Listings :
       LET image_ids == FetchPetImages(http_ok, listing)
       IN /\ loc' = [loc EXCEPT ![w].image_ids = image_ids, ![w].http_failed = ~http_ok]
          /\ pc' = [pc EXCEPT ![w] = AfterListing(image_ids)]
  /\ UNCHANGED <<stream, last_id, dlq, group_exists, last_delivered, pel, group_ready,
                 store, counters, pending_gauge, submitted, batch, handled, raised>>

\* handle_job, lines 188-192: nothing listed
SkipAck(w) ==
  /\ UNCHANGED <<stream_maxlen, api, written, eng, lag_gauge, xpending_exc>>
  /\ pc[w] = "skip_ack"
  /\ pel' = XAck(pel, CurId(w))
  /\ counters' = Inc(counters, "skipped")
  /\ loc' = [loc EXCEPT ![w].acks = @ + 1, ![w].results = Append(@, "skipped")]
  /\ pc' = [pc EXCEPT ![w] = "metrics"]
  /\ UNCHANGED <<stream, last_id, dlq, group_exists, last_delivered, group_ready,
                 store, pending_gauge, submitted, batch, handled, raised>>

\* no usable embedding treated like an empty listing
NoValidIds_Skipped ==
  [pc |-> "skip_ack", exc |-> None, valid |-> 0, state |-> NoState, updates |-> <<>>]

\* handle_job, lines 218-223: if not valid_ids: warn and return
NoValidIds ==
  [pc |-> "metrics", exc |-> None, valid |-> 0, state |-> NoState, updates |-> <<>>]

\* the wall clock, read off the stream: it never goes back, and it has moved
\* on whenever an entry was added or delivered
Now == last_id + last_delivered

\* what handle_job computes from the fetched insights (lines 206-300)
Computed(pet_id, image_ids, answers, prio, now) ==
  LET insights_data == FetchInsightsBatch(image_ids, answers)
      pos == ValidPositions(image_ids, insights_data, 1)
      valid_ids == [ k \in 1 .. Len(pos) |-> image_ids[pos[k]] ]
      embeddings == [ k \in 1 .. Len(pos) |-> insights_data[pos[k]].embedding ]
      res == ClusterImages(valid_ids, embeddings, identity_eps_x100,
                           clustering_min_samples, max_cluster_size, prio)
  IN IF valid_ids = <<>>
     THEN NoValidIds
     ELSE IF res.raises # None
     THEN [pc |-> "failed", exc |-> res.raises, valid |-> Len(valid_ids),
           state |-> NoState, updates |-> <<>>]
     ELSE IF UpdatesRaise(res.clusters) # None
     THEN [pc |-> "failed", exc |-> UpdatesRaise(res.clusters), valid |-> Len(valid_ids),
           state |-> NoState, updates |-> <<>>]
     ELSE [pc |-> "persist", exc |-> None, valid |-> Len(valid_ids),
           state |-> BuildState(pet_id, image_ids, res.clusters, now),
           updates |-> InsightUpdates(pet_id, res.clusters)]

\* handle_job, lines 206-300: fetch the insights, filter, cluster, build the
\* state; no usable embedding returns without ack
FetchInsights(w) ==
  /\ UNCHANGED <<stream_maxlen, api, written, eng, lag_gauge, xpending_exc>>
  /\ pc[w] = "insights"
  /\ \E answers \in [1 .. Len(loc[w].image_ids) -> InsightRecords \cup {NoInsight}],
        prio \in TieOrders(Len(loc[w].image_ids)) :
       LET c == Computed(loc[w].env.pet_id, loc[w].image_ids, answers, prio, Now)
       IN /\ loc' = [loc EXCEPT ![w].state = c.state, ![w].updates = c.updates,
                                ![w].exc = c.exc, ![w].valid = c.valid,
                                ![w].fetched = Len(loc[w].image_ids),
                                ![w].embedded = Embedded(answers),
                                ![w].http_failed =
                                   @ \/ \E k \in DOMAIN answers : ~answers[k].ok]
          /\ pc' = [pc EXCEPT ![w] = c.pc]
  /\ UNCHANGED <<stream, last_id, dlq, group_exists, last_delivered, pel, group_ready,
                 store, counters, pending_gauge, submitted, batch, handled, raised>>

\* where handle_job goes after persist_cluster_state returned
AfterPersist(updates) == IF updates # <<>> THEN "writeback" ELSE "ack"

\* a failed persist swallowed like a failed write-back
AfterPersistFailure_Swallowed(updates) == [pc |-> AfterPersist(updates), exc |-> None]

\* a failed persist followed by the ack
AfterPersistFailure_Acked(updates) == [pc |-> "ack", exc |-> None]

\* where handle_job goes when persist_cluster_state raises: nothing catches
\* it before consume_jobs
AfterPersistFailure(updates) == [pc |-> "failed", exc |-> "RedisError"]

\* handle_job, line 301: persist_cluster_state; SETEX may raise
Persist(w) ==
  /\ UNCHANGED <<stream_maxlen, api, eng, lag_gauge, xpending_exc>>
  /\ pc[w] = "persist"
  /\ \/ /\ store' = PersistClusterState(store, loc[w].state)
        /\ written' = Written(written, loc[w].state)
        /\ pc' = [pc EXCEPT ![w] = AfterPersist(loc[w].updates)]
        /\ loc' = [loc EXCEPT ![w].persisted = @ + 1]
     \/ /\ store' = store
        /\ written' = written
        /\ pc' = [pc EXCEPT ![w] = AfterPersistFailure(loc[w].updates).pc]
        /\ loc' = [loc EXCEPT ![w].exc = AfterPersistFailure(loc[w].updates).exc,
                              ![w].persist_failed = TRUE]
  /\ UNCHANGED <<stream, last_id, dlq, group_exists, last_delivered, pel, group_ready,
                 counters, pending_gauge, submitted, batch, handled, raised>>

\* a failed post that propagates
AfterWriteBack_Fatal(nfailed) ==
  IF nfailed > 0 THEN [pc |-> "failed", exc |-> "ClientError"] ELSE [pc |-> "ack", exc |-> None]

\* where handle_job goes after store_insights_batch, nfailed posts having failed
AfterWriteBack(nfailed) == [pc |-> "ack", exc |-> None]

\* handle_job, lines 303-318: store_insights_batch; each failed post is
\* swallowed
WriteBack(w) ==
  /\ UNCHANGED <<stream_maxlen, api, written, eng, lag_gauge, xpending_exc>>
  /\ pc[w] = "writeback"
  /\ \E failed \in SUBSET (1 .. Len(loc[w].updates)) :
       LET out == AfterWriteBack(Cardinality(failed))
       IN /\ loc' = [loc EXCEPT ![w].posted = Len(loc[w].updates) - Cardinality(failed),
                                ![w].post_failed = Cardinality(failed),
                                ![w].exc = out.exc]
          /\ pc' = [pc EXCEPT ![w] = out.pc]
  /\ UNCHANGED <<stream, last_id, dlq, group_exists, last_delivered, pel, group_ready,
                 store, counters, pending_gauge, submitted, batch, handled, raised>>

\* handle_job, lines 320-326: ack, count success
SuccessAck(w) ==
  /\ UNCHANGED <<stream_maxlen, api, written, eng, lag_gauge, xpending_exc>>
  /\ pc[w] = "ack"
  /\ pel' = XAck(pel, CurId(w))
  /\ counters' = Inc(counters, "success")
  /\ loc' = [loc EXCEPT ![w].acks = @ + 1, ![w].results = Append(@, "success")]
  /\ pc' = [pc EXCEPT ![w] = "metrics"]
  /\ UNCHANGED <<stream, last_id, dlq, group_exists, last_delivered, group_ready,
                 store, pending_gauge, submitted, batch, handled, raised>>

\* consume_jobs, lines 348-363, and _retry_or_deadletter up to its xack:
\* the envelope is parsed again, failure is counted; logging the failure of
\* a value that is no dict raises out of the except block
FailAck(w) ==
  /\ UNCHANGED <<stream_maxlen, api, written, eng, lag_gauge, xpending_exc>>
  /\ pc[w] = "failed"
  /\ raised' = [raised EXCEPT ![CurId(w)] = @ + 1]
  /\ LET fe == FailureEnvelope(loc[w].entry.text)
         attempts == NextAttempts(fe.env)
     IN IF ~fe.isdict
        THEN /\ counters' = Inc(counters, "failure")
             /\ loc' = [loc EXCEPT ![w].crash = TRUE, ![w].exc = "AttributeError",
                                   ![w].results = Append(@, "failure")]
             /\ pc' = [pc EXCEPT ![w] = "metrics"]
             /\ pel' = pel
        ELSE /\ pel' = XAck(pel, CurId(w))
             /\ counters' = IF DeadLetterDue(attempts)
                            THEN Inc(counters, "failure")
                            ELSE Inc(Inc(counters, "failure"), "retry")
             /\ loc' = [loc EXCEPT
                          ![w].env = [fe.env EXCEPT !.attempts = attempts],
                          ![w].acks = @ + 1,
                          ![w].results =
                             IF DeadLetterDue(attempts) THEN Append(@, "failure")
                             ELSE @ \o <<"failure", "retry">>]
             /\ pc' = [pc EXCEPT ![w] = "fail_publish"]
  /\ UNCHANGED <<stream, last_id, dlq, group_exists, last_delivered, group_ready,
                 store, pending_gauge, submitted, batch, handled>>

\* _retry_or_deadletter, lines 120-148: the dead-letter or the retry publish
FailPublish(w) ==
  /\ UNCHANGED <<stream_maxlen, api, written, eng, lag_gauge, xpending_exc>>
  /\ pc[w] = "fail_publish"
  /\ IF DeadLetterDue(loc[w].env.attempts)
     THEN /\ dlq' = XAddDeadLetter(dlq, JsonDumps(loc[w].env), StrOfError(loc[w].exc),
                                   stream_maxlen)
          /\ counters' = Inc(counters, "dead_letter")
          /\ loc' = [loc EXCEPT ![w].deadlettered = @ + 1,
                                ![w].results = Append(@, "dead_letter")]
          /\ UNCHANGED <<stream, last_id, handled, raised>>
     ELSE /\ stream' = XAdd(stream, last_id + 1, JsonDumps(loc[w].env),
                            stream_maxlen)
          /\ last_id' = last_id + 1
          /\ handled' = handled @@ ((last_id + 1) :> 0)
          /\ raised' = raised @@ ((last_id + 1) :> 0)
          /\ loc' = [loc EXCEPT ![w].republished = @ + 1]
          /\ UNCHANGED <<dlq, counters>>
  /\ pc' = [pc EXCEPT ![w] = "metrics"]
  /\ UNCHANGED <<group_exists, last_delivered, pel, group_ready, store, pending_gauge,
                 submitted, batch>>

\* consume_jobs, line 365 (finally): record_stream_metrics, then the next
\* message, the next read, or the end of the loop by an exception
\* a range inspection whose error is not looked at
Gauges_RangeIgnored(p, now, exc) ==
  IF exc.summary # None THEN [pending |-> 0, lag |-> 0]
  ELSE [pending |-> XPendingCount(p), lag |-> OldestIdle(p, now)]

\* the gauges after record_stream_metrics (lines 368-404), exc telling what
\* the two pending inspections raised: a ResponseError of XPENDING resets
\* both gauges, one of the range inspection resets the lag gauge only
Gauges(p, now, exc) ==
  IF exc.summary # None THEN [pending |-> 0, lag |-> 0]
  ELSE IF exc.range # None THEN [pending |-> XPendingCount(p), lag |-> 0]
  ELSE [pending |-> XPendingCount(p), lag |-> OldestIdle(p, now)]

\* consume_jobs, line 365 (finally): record_stream_metrics with the pending
\* inspections raising exc, then the next message, the next read, or the
\* end of the loop by an exception
RecordWith(w, exc) ==
  /\ UNCHANGED <<stream_maxlen, api, written, eng>>
  /\ pc[w] = "metrics"
  /\ pending_gauge' = Gauges(pel, Now, exc).pending
  /\ lag_gauge' = Gauges(pel, Now, exc).lag
  /\ xpending_exc' = exc
  /\ pc' = [pc EXCEPT ![w] = IF loc[w].crash THEN "crashed"
                             ELSE IF batch[w] = <<>> THEN "read" ELSE "handle"]
  /\ loc' = [loc EXCEPT ![w] = NoLoc]
  /\ UNCHANGED <<stream, last_id, dlq, group_exists, last_delivered, pel, group_ready,
                 store, counters, submitted, batch, handled, raised>>

\* record_stream_metrics with both pending inspections answering
RecordMetrics(w) == RecordWith(w, NoXPendingExc)

\* record_stream_metrics where XPENDING raises a ResponseError (line 373)
PendingRaises(w) == RecordWith(w, [summary |-> "ResponseError", range |-> None])

\* record_stream_metrics where the range inspection raises a ResponseError
\* (line 394)
RangeRaises(w) == RecordWith(w, [summary |-> None, range |-> "ResponseError"])

(***************************************************************************)
(* Specification.                                                          *)
(***************************************************************************)
\* texts others may have written to the stream
ForeignTexts ==
  { AbsentText, NotJsonText, NonObjectText }
    \cup { JsonDumps([NoEnv EXCEPT !.payload = "p", !.attempts = a]) :
             a \in {0, cluster_max_attempts - 1} }

ForeignStreams ==
  UNION { [1 .. n -> ForeignTexts] : n \in 0 .. MaxForeign }

\* what the store holds for a pet when the worker starts: nothing, or the
\* state an earlier job left for a pet with one listed, embedded image
EmptyStore == [p \in NumericPets |-> NoDoc]
EarlierDocs(pet_id) ==
  { NoDoc,
    PersistClusterState(EmptyStore, BuildState(pet_id, <<"10">>, <<>>, 0))[StateKey(pet_id)] }

EmptyWritten == [p \in NumericPets |-> NoWritten]

\* ClusterStateResponse.from_domain: the fields the response model keeps
FromDomain(state) ==
  [pet_id |-> state.pet_id,
   clusters |-> [ n \in 1 .. Len(state.clusters) |->
                    [id |-> state.clusters[n].id,
                     label |-> state.clusters[n].label,
                     members |-> [ k \in 1 .. Len(state.clusters[n].members) |->
                                     [image_id |-> state.clusters[n].members[k].image_id,
                                      score |-> state.clusters[n].members[k].score,
                                      position |-> state.clusters[n].members[k].position] ],
                     hero_image_id |-> state.clusters[n].hero_image_id] ],
   updated_at |-> IsoFormat(state.updated_at)]

\* no state route was called, no engine call is looked at
NoCall == [seq |-> 0, op |-> None, pet_id |-> None, status |-> 0, state |-> NoState,
           body |-> FromDomain(NoState), detail |-> None]
NoEng == [image_ids |-> <<>>, embs |-> <<>>, eps100 |-> 0, min_samples |-> 0, cap |-> 0,
          done |-> FALSE, out |-> [raises |-> None, clusters |-> <<>>]]

InitBase(streams) ==
  /\ \E texts \in streams :
       /\ stream = [ k \in 1 .. Len(texts) |-> [id |-> k, text |-> texts[k]] ]
       /\ last_id = Len(texts)
       /\ handled = [ k \in 1 .. Len(texts) |-> 0 ]
       /\ raised = [ k \in 1 .. Len(texts) |-> 0 ]
  /\ dlq = <<>>
  /\ group_exists = FALSE
  /\ last_delivered = 0
  /\ pel = {}
  /\ group_ready = [p \in Procs |-> FALSE]
  /\ store \in { st \in [NumericPets -> UNION { EarlierDocs(p) : p \in NumericPets }] :
                    \A p \in NumericPets : st[p] \in EarlierDocs(p) }
  /\ counters = [r \in Results |-> 0]
  /\ pending_gauge = 0
  /\ lag_gauge = 0
  /\ xpending_exc = NoXPendingExc
  /\ submitted = 0
  /\ pc = [w \in Workers |-> "start"]
  /\ batch = [w \in Workers |-> <<>>]
  /\ loc = [w \in Workers |-> NoLoc]
  /\ api = NoCall
  /\ written = [ p \in NumericPets |->
                   IF store[p].present
                   THEN Written(EmptyWritten, StateFromDict(store[p].doc))[p]
                   ELSE NoWritten ]

InitState == InitBase(ForeignStreams) /\ eng = NoEng

\* the state after construction, with the default cluster_stream_maxlen
Init == InitState /\ stream_maxlen = cluster_stream_maxlen

\* the same with a small cluster_stream_maxlen in the environment
InitTrim == InitState /\ stream_maxlen \in 1 .. MaxTrim

WorkerStep(w) ==
  \/ WorkerStart(w)
  \/ ReadGroup(w)
  \/ BeginEntry(w)
  \/ InvalidAck(w)
  \/ FetchListing(w)
  \/ SkipAck(w)
  \/ FetchInsights(w)
  \/ Persist(w)
  \/ WriteBack(w)
  \/ SuccessAck(w)
  \/ FailAck(w)
  \/ FailPublish(w)
  \/ RecordMetrics(w)

Submit == \E pet_id \in NumericPets \cup OtherPets, job_payload \in JobPayloads :
            Enqueue(pet_id, job_payload)

Next == (\E w \in Workers1 : WorkerStep(w)) \/ Submit

Spec == Init /\ [][Next]_vars

\* the worker process ends (KeyboardInterrupt, kill) wherever consume_jobs
\* is; what it did for the current message stays done
Stop(w) ==
  /\ UNCHANGED <<stream_maxlen, api, written, eng, lag_gauge, xpending_exc>>
  /\ pc[w] \notin {"start", "crashed", "stopped"}
  /\ pc' = [pc EXCEPT ![w] = "stopped"]
  /\ UNCHANGED <<stream, last_id, dlq, group_exists, last_delivered, pel, group_ready,
                 store, counters, pending_gauge, submitted, batch, loc, handled, raised>>

\* _retry_or_deadletter: the XADD of the retry or of the dead letter raises;
\* the exception leaves the except block of consume_jobs after the finally
PublishRaises(w) ==
  /\ UNCHANGED <<stream_maxlen, api, written, eng, lag_gauge, xpending_exc>>
  /\ pc[w] = "fail_publish"
  /\ loc' = [loc EXCEPT ![w].crash = TRUE, ![w].exc = "RedisError"]
  /\ pc' = [pc EXCEPT ![w] = "metrics"]
  /\ UNCHANGED <<stream, last_id, dlq, group_exists, last_delivered, pel, group_ready,
                 store, counters, pending_gauge, submitted, batch, handled, raised>>

\* ensure_consumer_group by process p: XGROUP CREATE raises an error that is
\* not BUSYGROUP (no connection, say).  The finally clause sets _group_ready,
\* the exception goes to the caller: enqueue_job fails, consume_jobs ends
EnsureRaises(p) ==
  /\ UNCHANGED <<stream_maxlen, api, written, eng, lag_gauge, xpending_exc>>
  /\ ~group_ready[p]
  /\ IF p \in Workers THEN pc[p] = "start" ELSE TRUE
  /\ group_ready' = [group_ready EXCEPT ![p] = TRUE]
  /\ pc' = IF p \in Workers THEN [pc EXCEPT ![p] = "crashed"] ELSE pc
  /\ UNCHANGED <<stream, last_id, dlq, group_exists, last_delivered, pel, store,
                 counters, pending_gauge, submitted, batch, loc, handled, raised>>

NextStop ==
  \/ Next
  \/ \E w \in Workers1 : Stop(w) \/ PublishRaises(w)
  \/ \E p \in Workers1 \cup {Api} : EnsureRaises(p)

\* the system with workers that may stop and Redis commands that may fail
SpecStop == Init /\ [][NextStop]_vars

\* the system with pending inspections that may raise a ResponseError
NextGauge ==
  \/ Next
  \/ \E w \in Workers1 : PendingRaises(w) \/ RangeRaises(w)

SpecGauge == Init /\ [][NextGauge]_vars

\* the system configured with a small cluster_stream_maxlen
SpecTrim == InitTrim /\ [][Next]_vars

\* two worker processes on one consumer group.  The stream holds an entry
\* without payload field, or the job another front-door process enqueued
\* for pet "1"; a second job comes in while the workers run
InitMulti ==
  /\ InitBase({ <<AbsentText>>,
                <<JsonDumps(NewEnvelope(GivenJobId, "1", CarriedPayload,
                                        cluster_max_attempts - 1))>> })
  /\ eng = NoEng
  /\ stream_maxlen = cluster_stream_maxlen

\* a job for the same pet, on its last attempt like the first
SubmitSame == Enqueue("1", CarriedPayload)

NextMulti == (\E w \in Workers : WorkerStep(w)) \/ SubmitSame

SpecMulti == InitMulti /\ [][NextMulti]_vars

(***************************************************************************)
(* The state store on its own: persists, the two state routes of           *)
(* routes/internal.py, and time passing.                                   *)
(***************************************************************************)
WorkerVars == <<stream, last_id, dlq, group_exists, last_delivered, pel, group_ready,
                counters, pending_gauge, submitted, pc, batch, loc, handled, raised,
                stream_maxlen, lag_gauge, xpending_exc>>

\* states handle_job may build for pet "1": nothing clustered, or one
\* cluster of two images
StoreStates ==
  { BuildState("1", <<"10">>, <<>>, t) : t \in 1 .. 2 }
    \cup { BuildState("1", <<"10", "11">>,
                      ClusterImages(<<"10", "11">>, <<E1, E1>>, identity_eps_x100,
                                    clustering_min_samples, max_cluster_size,
                                    StableOrder(2)).clusters, t) : t \in 1 .. 2 }

\* handle_job calls persist_cluster_state(state) and the SETEX succeeds
PersistCall(state) ==
  /\ store' = PersistClusterState(store, state)
  /\ written' = Written(written, state)
  /\ UNCHANGED <<WorkerVars, api, eng>>

\* GET /internal/pets/{pet_id}/clusters: 404 when get_cluster_state gives None
GetClusters(pet_id) ==
  /\ LET state == GetClusterState(store, pet_id)
     IN api' = IF state = NoState
               THEN [seq |-> 1 - api.seq, op |-> "get_clusters", pet_id |-> pet_id,
                     status |-> 404, state |-> NoState,
                     body |-> FromDomain(NoState), detail |-> "cluster state not found"]
               ELSE [seq |-> 1 - api.seq, op |-> "get_clusters", pet_id |-> pet_id,
                     status |-> 200, state |-> state,
                     body |-> FromDomain(state), detail |-> None]
  /\ UNCHANGED <<WorkerVars, store, written, eng>>

\* POST /internal/pets/{pet_id}/invalidate
InvalidateClusters(pet_id) ==
  /\ LET r == Invalidate(store, pet_id)
     IN /\ store' = r.st
        /\ api' = [seq |-> 1 - api.seq, op |-> "invalidate", pet_id |-> pet_id,
                   status |-> 202, state |-> NoState, body |-> FromDomain(NoState),
                   detail |-> IF r.deleted # 0 THEN "removed" ELSE "noop"]
        /\ written' = [written EXCEPT ![StateKey(pet_id)] =
                         [NoWritten EXCEPT !.removed =
                                              r.deleted # 0 \/ written[StateKey(pet_id)].removed]]
  /\ UNCHANGED <<WorkerVars, eng>>

\* the lapses of time looked at: one second short of the TTL, and the TTL
Lapses == {cluster_ttl_seconds - 1, cluster_ttl_seconds}

\* d seconds pass
Elapse(d) ==
  /\ store' = Expire(store, d)
  /\ written' = [ k \in DOMAIN written |->
                    IF written[k].live
                    THEN [written[k] EXCEPT !.age = IF @ + d > cluster_ttl_seconds
                                                    THEN cluster_ttl_seconds ELSE @ + d]
                    ELSE written[k] ]
  /\ UNCHANGED <<WorkerVars, api, eng>>

InitStore ==
  /\ InitBase({ <<>> })
  /\ eng = NoEng
  /\ stream_maxlen = cluster_stream_maxlen

NextStore ==
  \/ \E state \in StoreStates : PersistCall(state)
  \/ \E pet_id \in NumericPets : GetClusters(pet_id) \/ InvalidateClusters(pet_id)
  \/ \E d \in Lapses : Elapse(d)

SpecStore == InitStore /\ [][NextStore]_vars

(***************************************************************************)
(* The clustering engine on its own: one call of cluster_images.           *)
(***************************************************************************)
ImageNames == <<"img-0", "img-1", "img-2", "img-3", "img-4">>

\* the arguments of the call: up to MaxImages ids and as many or other
\* embedding rows, the identity threshold or one that joins E1 and E2, and
\* small min_samples and max_cluster_size
InitEngine ==
  /\ InitBase({ <<>> })
  /\ stream_maxlen = cluster_stream_maxlen
  /\ \E n \in 0 .. MaxImages,
        embs \in UNION { [1 .. k -> {E1, E2}] : k \in 0 .. MaxImages },
        eps100 \in {identity_eps_x100, 100},
        min_samples \in 1 .. 3,
        cap \in 1 .. 3 :
       eng = [NoEng EXCEPT !.image_ids = SubSeq(ImageNames, 1, n), !.embs = embs,
                           !.eps100 = eps100, !.min_samples = min_samples, !.cap = cap]

\* engine.cluster_images(image_ids, embeddings) returns or raises
CallClusterImages ==
  /\ ~eng.done
  /\ \E prio \in TieOrders(Len(eng.embs)) :
       eng' = [eng EXCEPT !.done = TRUE,
                          !.out = ClusterImages(eng.image_ids, eng.embs, eng.eps100,
                                                eng.min_samples, eng.cap, prio)]
  /\ UNCHANGED <<WorkerVars, store, api, written>>

NextEngine == CallClusterImages

SpecEngine == InitEngine /\ [][NextEngine]_vars

\* consume_jobs is a loop on the event loop of its own process: a worker that
\* can take a step takes one
FairSpec == Spec /\ \A w \in Workers1 : WF_vars(WorkerStep(w))


(***************************************************************************)
(* Properties.                                                             *)
(***************************************************************************)
\* handle_job, and the failure path if it raised, are over for loc[w].entry
Finished(w) == pc[w] = "metrics"
Acked(id) == ~\E e \in pel : e.id = id
Malformed(text) == text.kind \in {"absent", "notjson"}

\* C1: when handle_job raised for an entry whose envelope has attempts a, the
\* failure path acks the entry and then publishes exactly one entry with
\* attempts a + 1: to the dead-letter stream, with error = str(error), and
\* nothing to the main stream if a + 1 >= cluster_max_attempts; otherwise to
\* the main stream and nothing to the dead-letter stream.
C1_FailurePathRouting ==
  [][\A w \in Workers :
       LET e == loc[w].entry
           env1 == [e.text.env EXCEPT !.attempts = e.text.env.attempts + 1]
       IN /\ (pc[w] = "failed" /\ pc'[w] # "failed" /\ e.text.kind = "object")
               => /\ pc'[w] = "fail_publish"
                  /\ ~\E p \in pel' : p.id = e.id
                  /\ stream' = stream /\ dlq' = dlq
          /\ (pc[w] = "fail_publish" /\ pc'[w] # "fail_publish")
               => /\ Acked(e.id)
                  /\ IF e.text.env.attempts + 1 >= cluster_max_attempts
                     THEN /\ dlq' = Append(dlq, [payload |-> JsonDumps(env1),
                                                 error |-> StrOfError(loc[w].exc)])
                          /\ stream' = stream
                     ELSE /\ stream' = Append(stream, [id |-> last_id + 1,
                                                       text |-> JsonDumps(env1)])
                          /\ dlq' = dlq]_vars

\* an envelope with attempts = max_attempts - 1 failed once and was
\* dead-lettered, not retried
C1_Witness ==
  \E w \in Workers :
    /\ Finished(w)
    /\ loc[w].entry.text.env.attempts = cluster_max_attempts - 1
    /\ loc[w].deadlettered = 1
    /\ loc[w].republished = 0

\* C2: every entry of the dead-letter stream carries an envelope whose
\* attempts is at least cluster_max_attempts.
C2_DeadLetterAttempts ==
  \A i \in 1 .. Len(dlq) :
    /\ dlq[i].payload.kind = "object"
    /\ dlq[i].payload.env.attempts >= cluster_max_attempts

C2_Witness == Len(dlq) >= 1

\* the positions of the main stream holding an envelope of job j
JobEntries(j) ==
  { k \in 1 .. Len(stream) : stream[k].text.kind = "object" /\ stream[k].text.env.job_id = j }
JobEntriesNext(j) ==
  { k \in 1 .. Len(stream') : stream'[k].text.kind = "object" /\ stream'[k].text.env.job_id = j }

RECURSIVE SumOver(_, _)
SumOver(f, S) ==
  IF S = {} THEN 0
  ELSE LET k == CHOOSE x \in S : TRUE IN f[k] + SumOver(f, S \ {k})

\* how often handle_job got an entry of job j, and how often it raised
RunsOf(j) == SumOver([ k \in JobEntries(j) |-> handled[stream[k].id] ], JobEntries(j))
RaisedOf(j) == SumOver([ k \in JobEntries(j) |-> raised[stream[k].id] ], JobEntries(j))
InDlq(j) ==
  \E i \in 1 .. Len(dlq) : dlq[i].payload.kind = "object" /\ dlq[i].payload.env.job_id = j
\* a worker is handling an entry of job j
Running(j) ==
  \E w \in Workers : /\ pc[w] \notin {"start", "read", "handle", "crashed"}
                     /\ loc[w].entry.text.kind = "object"
                     /\ loc[w].entry.text.env.job_id = j

\* C3: a job enqueued with attempts 0 whose handler raises on every delivery
\* is passed to the handler exactly cluster_max_attempts times; its envelope
\* is then in the dead-letter stream, and no entry for it is added to the
\* main stream afterwards.
C3_RetryBounded ==
  /\ [](\A j \in 1 .. submitted :
          /\ (RaisedOf(j) = RunsOf(j) /\ ~Running(j))
               => /\ RunsOf(j) <= cluster_max_attempts
                  /\ (RunsOf(j) = cluster_max_attempts => InDlq(j))
          /\ InDlq(j)
               => /\ RunsOf(j) = cluster_max_attempts
                  /\ RaisedOf(j) = cluster_max_attempts
                  /\ Cardinality(JobEntries(j)) = cluster_max_attempts)
  /\ [][\A j \in 1 .. submitted : InDlq(j) => JobEntriesNext(j) = JobEntries(j)]_vars

C3_Witness ==
  \E j \in 1 .. submitted :
    InDlq(j) /\ RunsOf(j) = cluster_max_attempts /\ ~Running(j)

\* C4: an entry whose payload field is missing or is no JSON is acked and
\* counted invalid exactly once; it is not republished, not dead-lettered,
\* and no ClusterState is written for it.
C4_InvalidPayloadTerminal ==
  /\ \A w \in Workers :
       (Finished(w) /\ Malformed(loc[w].entry.text))
         => /\ Acked(CurId(w))
            /\ loc[w].acks = 1
            /\ loc[w].results = <<"invalid">>
            /\ loc[w].republished = 0
            /\ loc[w].deadlettered = 0
            /\ loc[w].persisted = 0
            /\ store = loc[w].store0
  /\ \A k \in 1 .. Len(stream) :
       Malformed(stream[k].text)
         => handled[stream[k].id] <= 1 /\ raised[stream[k].id] = 0
  /\ \A k \in 1 .. Len(stream) :
       stream[k].text.kind = "object" => stream[k].text.env.payload # "raw"

C4_Witness ==
  \E w \in Workers :
    /\ Finished(w)
    /\ loc[w].entry.text.kind = "notjson"
    /\ loc[w].results = <<"invalid">>
    /\ counters["invalid"] = 1

\* C5: whatever exception handle_job raises, consume_jobs runs the failure
\* path for the entry (ack, then one publish) and goes on; no handler
\* exception ends the worker loop.
C5_WorkerLoopSurvives ==
  \A w \in Workers :
    /\ pc[w] # "crashed"
    /\ (Finished(w) /\ raised[CurId(w)] > 0)
         => /\ loc[w].acks = 1
            /\ loc[w].republished + loc[w].deadlettered = 1

C7_WriteBackNonFatal ==
  \A w \in Workers :
    (Finished(w) /\ loc[w].post_failed >= 1)
      => /\ Acked(CurId(w))
         /\ loc[w].results = <<"success">>
         /\ loc[w].persisted = 1
         /\ GetClusterState(store, loc[w].env.pet_id) = loc[w].state
         /\ loc[w].republished = 0
         /\ loc[w].deadlettered = 0
         /\ raised[CurId(w)] = 0

\* every post of the write-back failed
C7_Witness ==
  \E w \in Workers :
    /\ Finished(w)
    /\ loc[w].post_failed = Len(loc[w].updates)
    /\ loc[w].post_failed >= 2
    /\ loc[w].results = <<"success">>

\* C8: when persist_cluster_state raises, no insight update is posted, the
\* entry takes the failure path (acked, then republished with attempts + 1,
\* or dead-lettered at the limit), and the stored state is unchanged.
C8_PersistFailureRetried ==
  \A w \in Workers :
    (Finished(w) /\ loc[w].persist_failed)
      => /\ loc[w].posted = 0 /\ loc[w].post_failed = 0
         /\ loc[w].persisted = 0
         /\ Acked(CurId(w)) /\ loc[w].acks = 1
         /\ raised[CurId(w)] = 1
         /\ loc[w].env.attempts = loc[w].entry.text.env.attempts + 1
         /\ IF loc[w].entry.text.env.attempts + 1 >= cluster_max_attempts
            THEN /\ loc[w].deadlettered = 1 /\ loc[w].republished = 0
                 /\ loc[w].results = <<"failure", "dead_letter">>
            ELSE /\ loc[w].republished = 1 /\ loc[w].deadlettered = 0
                 /\ loc[w].results = <<"failure", "retry">>
         /\ store = loc[w].store0

\* a persist failed at the limit, over a state stored before
C8_Witness ==
  \E w \in Workers :
    /\ Finished(w) /\ loc[w].persist_failed
    /\ loc[w].deadlettered = 1
    /\ store[StateKey(loc[w].env.pet_id)].present

\* C9: a transient failure of the insights service during a job (on the
\* listing or on an insight fetch) sends the job down the failure path:
\* republished with attempts + 1, dead-lettered at the limit.
C9_UpstreamFailureRetried ==
  \A w \in Workers :
    (Finished(w) /\ loc[w].http_failed)
      => /\ raised[CurId(w)] = 1
         /\ loc[w].acks = 1
         /\ IF loc[w].entry.text.env.attempts + 1 >= cluster_max_attempts
            THEN loc[w].deadlettered = 1 /\ loc[w].republished = 0
            ELSE loc[w].republished = 1 /\ loc[w].deadlettered = 0

\* valid JSON that is no well-formed envelope: no object, or an object whose
\* pet_id is missing or does not convert
MalformedEnvelope(text) ==
  \/ text.kind = "nonobject"
  \/ text.kind = "object" /\ PetIntRaises(text.env.pet_id) # None

\* C10: an entry whose payload is valid JSON but no well-formed envelope is
\* acked and counted invalid, never republished, never dead-lettered.
C10_MalformedEnvelopeTerminal ==
  \A w \in Workers :
    (Finished(w) /\ MalformedEnvelope(loc[w].entry.text))
      => /\ Acked(CurId(w))
         /\ loc[w].results = <<"invalid">>
         /\ loc[w].republished = 0
         /\ loc[w].deadlettered = 0

\* handle_job got as far as the listing for the entry of w
Listed(w) ==
  /\ loc[w].entry.text.kind = "object"
  /\ PayloadGetRaises(loc[w].entry.text.env.payload) = None
  /\ PetIntRaises(loc[w].entry.text.env.pet_id) = None

\* C11: when the image listing is empty, handle_job acks the entry, counts
\* skipped and returns: no insight is fetched, nothing is clustered,
\* persisted, posted, republished or dead-lettered.
C11_EmptyListingSkipped ==
  \A w \in Workers :
    /\ (Finished(w) /\ Listed(w) /\ loc[w].image_ids = <<>>)
         => /\ Acked(CurId(w)) /\ loc[w].acks = 1
            /\ loc[w].results = <<"skipped">>
            /\ loc[w].fetched = 0
            /\ loc[w].valid = 0 /\ loc[w].state = NoState
            /\ loc[w].persisted = 0 /\ ~loc[w].persist_failed
            /\ loc[w].posted = 0 /\ loc[w].post_failed = 0
            /\ loc[w].republished = 0 /\ loc[w].deadlettered = 0
            /\ raised[CurId(w)] = 0
            /\ store = loc[w].store0
    /\ (pc[w] \in {"insights", "persist", "writeback", "ack"}) => loc[w].image_ids # <<>>

\* the service listed no image (and answered)
C11_Witness ==
  \E w \in Workers :
    /\ Finished(w) /\ Listed(w) /\ loc[w].image_ids = <<>> /\ ~loc[w].http_failed
    /\ counters["skipped"] = 1
    /\ store[StateKey(loc[w].env.pet_id)].present

\* C12: when the listing is not empty but no fetched insight has
\* has_embedding and a non-empty embedding, handle_job returns without ack
\* and without raising: the entry stays pending, no result is counted,
\* nothing is republished or dead-lettered, no ClusterState is written.
C12_NoEmbeddingsLeftPending ==
  \A w \in Workers :
    (Finished(w) /\ Listed(w) /\ loc[w].image_ids # <<>> /\ loc[w].valid = 0)
      => /\ ~Acked(CurId(w)) /\ loc[w].acks = 0
         /\ loc[w].exc = None /\ raised[CurId(w)] = 0
         /\ loc[w].results = <<>>
         /\ loc[w].republished = 0 /\ loc[w].deadlettered = 0
         /\ loc[w].persisted = 0 /\ ~loc[w].persist_failed
         /\ loc[w].posted = 0 /\ loc[w].post_failed = 0
         /\ store = loc[w].store0

\* two images listed, both fetched, neither with a usable embedding
C12_Witness ==
  \E w \in Workers :
    /\ Finished(w) /\ Listed(w) /\ loc[w].valid = 0
    /\ Len(loc[w].image_ids) = 2 /\ loc[w].fetched = 2 /\ ~loc[w].http_failed
    /\ \E e \in pel : e.id = CurId(w)
    /\ counters = [r \in Results |-> 0]

\* the ids main-stream entries can get
EntryIds == 1 .. (MaxForeign + MaxJobs * cluster_max_attempts)

\* entry id went through the handler and was left in the pending list
LeftUnacked(id) ==
  /\ id \in DOMAIN handled
  /\ handled[id] >= 1
  /\ ~Acked(id)
  /\ \A w \in Workers : CurId(w) # id

\* C13: every entry that was delivered and left unacked is eventually
\* delivered again and handled again.
C13_UnackedRedelivered ==
  \A id \in EntryIds :
    LeftUnacked(id) ~> (id \in DOMAIN handled /\ handled[id] >= 2)

\* job j has an entry whose handling ended in an ack without failure
Settled(j) ==
  \E k \in JobEntries(j) :
    /\ handled[stream[k].id] >= 1
    /\ raised[stream[k].id] = 0
    /\ Acked(stream[k].id)
    /\ \A w \in Workers : CurId(w) # stream[k].id

\* C14: with a fair worker that never crashes, every enqueued job eventually
\* is acked as success, skipped or invalid, or is in the dead-letter stream.
C14_EveryJobTerminates ==
  \/ <>(\E w \in Workers : pc[w] = "crashed")
  \/ \A j \in 1 .. MaxJobs :
       (JobEntries(j) # {}) ~> (Settled(j) \/ InDlq(j))

\* C15: in the failure path the ack comes before the publish: wherever the
\* worker stops, and when the publish fails, an entry is never both pending
\* and republished or dead-lettered; at most one publish is made for it.
C15_AckBeforePublish ==
  /\ [](\A w \in Workers :
          /\ loc[w].republished + loc[w].deadlettered <= 1
          /\ (loc[w].republished + loc[w].deadlettered = 1) => Acked(CurId(w)))
  /\ [][/\ \A w \in Workers :
             (loc'[w].republished + loc'[w].deadlettered
                > loc[w].republished + loc[w].deadlettered)
               => (pc[w] = "fail_publish" /\ Acked(CurId(w)))
        /\ ((submitted' = submitted /\ stream' # stream) \/ dlq' # dlq)
             => \E w \in Workers :
                  /\ pc[w] = "fail_publish" /\ Acked(CurId(w))
                  /\ loc'[w].republished + loc'[w].deadlettered = 1
        /\ \A e \in pel' : e \in pel \/ e.id > last_delivered]_vars

\* a worker stopped between the ack and the publish: the job is lost
C15_Witness ==
  \E w \in Workers :
    /\ pc[w] = "stopped"
    /\ loc[w].acks = 1 /\ Acked(CurId(w)) /\ raised[CurId(w)] = 1
    /\ loc[w].republished = 0 /\ loc[w].deadlettered = 0
    /\ \A k \in 1 .. Len(stream) : stream[k].id <= CurId(w)
    /\ dlq = <<>>

\* the failure path ran to its end for the entry of w, a job envelope
Failed(w) ==
  /\ Finished(w)
  /\ loc[w].entry.text.kind = "object"
  /\ raised[CurId(w)] >= 1

C17_RetryChangesOnlyAttempts ==
  [][\A w \in Workers :
       LET old == loc[w].entry.text.env
       IN /\ (loc'[w].republished = loc[w].republished + 1)
               => LET new == stream'[Len(stream')].text
                  IN /\ Len(stream') = Len(stream) + 1
                     /\ new.kind = "object"
                     /\ new.env.job_id = old.job_id
                     /\ new.env.pet_id = old.pet_id
                     /\ new.env.payload = old.payload
                     /\ new.env.enqueued_at = old.enqueued_at
                     /\ new.env.attempts = old.attempts + 1
          /\ (loc'[w].deadlettered = loc[w].deadlettered + 1)
               => LET new == dlq'[Len(dlq')].payload
                  IN /\ Len(dlq') = Len(dlq) + 1
                     /\ new.kind = "object"
                     /\ new.env.job_id = old.job_id
                     /\ new.env.pet_id = old.pet_id
                     /\ new.env.payload = old.payload
                     /\ new.env.enqueued_at = old.enqueued_at
                     /\ new.env.attempts = old.attempts + 1]_vars

\* a submitted job came back with attempts 2, its other fields as enqueued
C17_Witness ==
  \E k \in 1 .. Len(stream) :
    /\ stream[k].text.kind = "object"
    /\ stream[k].text.env.attempts = 2
    /\ stream[k].text.env.job_id = 1
    /\ stream[k].text.env.enqueued_at = "t"
    /\ stream[1].text.kind = "object"
    /\ stream[1].text.env = [stream[k].text.env EXCEPT !.attempts = 0]

\* C18: enqueue_job ensures the consumer group exists and appends exactly
\* one entry to the main stream: an envelope with the caller's pet_id, the
\* caller's payload, attempts = 0, an enqueued_at, and the caller's job_id or
\* a fresh one; the dead-letter stream and the state store are unchanged.
C18_EnqueueAppendsFreshEnvelope ==
  [][(submitted' = submitted + 1)
       => /\ group_exists'
          /\ Len(stream') = Len(stream) + 1
          /\ SubSeq(stream', 1, Len(stream)) = stream
          /\ dlq' = dlq /\ store' = store
          /\ \E pet_id \in NumericPets \cup OtherPets, job_payload \in JobPayloads :
               LET new == stream'[Len(stream')].text
               IN /\ new.kind = "object"
                  /\ new.env.pet_id = pet_id
                  /\ new.env.payload = job_payload
                  /\ new.env.attempts = 0
                  /\ new.env.enqueued_at # None
                  /\ new.env.job_id = IF job_payload = CarriedPayload
                                      THEN GivenJobId ELSE submitted + 1]_vars

\* C19: whenever ensure_consumer_group has returned without raising, to
\* enqueue_job or to consume_jobs, the consumer group exists.
C19_GroupExistsAfterEnsure ==
  /\ (submitted >= 1) => group_exists
  /\ \A w \in Workers : (pc[w] \notin {"start", "crashed", "stopped"}) => group_exists

\* C20: every publish (enqueue, retry, dead letter) is issued with the
\* configured cluster_stream_maxlen; with exact trimming neither stream
\* holds more than that many entries after a publish, and the entries kept
\* are the newest.
C20_PublishesTrimmed ==
  [][/\ (stream' # stream)
          => /\ Len(stream') <= stream_maxlen
             /\ stream'[Len(stream')].id = last_id'
             /\ \A k \in 1 .. Len(stream') - 1 :
                  stream'[k] = stream[k + (Len(stream) + 1 - Len(stream'))]
     /\ (dlq' # dlq)
          => /\ Len(dlq') <= stream_maxlen
             /\ \A k \in 1 .. Len(dlq') - 1 :
                  dlq'[k] = dlq[k + (Len(dlq) + 1 - Len(dlq'))]]_vars

\* a publish dropped the oldest entry of a full stream
C20_Witness ==
  /\ Len(stream) = stream_maxlen
  /\ stream[1].id > 1
  /\ last_id = stream[Len(stream)].id

\* the entry ids a worker holds: the one it handles, those of its batch
Holding(w) ==
  ({CurId(w)} \ {0}) \cup { batch[w][k].id : k \in 1 .. Len(batch[w]) }

\* C21: with several workers on one consumer group every main-stream entry
\* is passed to handle_job at most once overall, and no entry is ever held
\* by two workers.
C21_HandledAtMostOnce ==
  /\ \A id \in DOMAIN handled : handled[id] <= 1
  /\ Holding("w1") \cap Holding("w2") = {}

\* the two workers are in handle_job at once, each with its own entry
C21_Witness ==
  /\ CurId("w1") # 0 /\ CurId("w2") # 0
  /\ pc["w1"] = "persist" /\ pc["w2"] = "persist"
  /\ handled[CurId("w1")] = 1 /\ handled[CurId("w2")] = 1

\* C22: when two workers handle jobs for the same pet concurrently, both
\* persists go through and the store holds the state of whichever persist
\* executed last, whatever the order in which the jobs were enqueued, read
\* or built.
C22_LastWriteWins ==
  \A p \in NumericPets :
    written[p].live
      => /\ store[p].present
         /\ GetClusterState(store, p) = written[p].state

\* both workers persisted for pet "1"; the state built first was written
\* last and is the one stored
C22_Witness ==
  /\ loc["w1"].persisted = 1 /\ loc["w2"].persisted = 1
  /\ loc["w1"].state.pet_id = "1" /\ loc["w2"].state.pet_id = "1"
  /\ loc["w1"].state.updated_at < loc["w2"].state.updated_at
  /\ GetClusterState(store, "1") = loc["w1"].state

\* C23: for every pet the updated_at of the stored ClusterState never
\* decreases from one persist to the next, several workers included.
C23_UpdatedAtMonotonic ==
  [][\A p \in NumericPets :
       (store[p].present /\ store'[p].present)
         => GetClusterState(store', p).updated_at >= GetClusterState(store, p).updated_at]_vars

\* C24: every persist stores the state with an expiry of cluster_ttl_seconds
\* and none is stored without one; a later persist puts the time to live
\* back to the full value; a state that is not persisted again for
\* cluster_ttl_seconds is absent afterwards and get_cluster_state gives None.
C24_StatesExpire ==
  \A p \in NumericPets :
    /\ store[p].present => store[p].ttl \in 1 .. cluster_ttl_seconds
    /\ written[p].live
         => IF written[p].age < cluster_ttl_seconds
            THEN store[p].present /\ store[p].ttl = cluster_ttl_seconds - written[p].age
            ELSE ~store[p].present /\ GetClusterState(store, p) = NoState

\* a state persisted cluster_ttl_seconds ago and not since: the key is gone
\* and the route answered 404
C24_Witness ==
  /\ written["1"].live /\ written["1"].age = cluster_ttl_seconds
  /\ written["1"].state \in StoreStates
  /\ ~store["1"].present
  /\ api.op = "get_clusters" /\ api.status = 404

EngClusters == IF eng.done THEN eng.out.clusters ELSE <<>>
\* the input position of an image id of the engine call
InputIndex(image_id) == CHOOSE i \in 1 .. Len(eng.image_ids) : eng.image_ids[i] = image_id

\* C26: in every output of the engine every cluster has at most
\* max_cluster_size members, its hero is its first member, and the member
\* scores never increase along the members list.
C26_ClusterShape ==
  \A n \in 1 .. Len(EngClusters) :
    LET c == EngClusters[n]
    IN /\ Len(c.members) <= eng.cap
       /\ Len(c.members) >= 1
       /\ c.hero_image_id = c.members[1].image_id
       /\ \A k \in 1 .. Len(c.members) - 1 : c.members[k].score >= c.members[k + 1].score

\* a cluster of three inputs cut to two members whose hero is not the
\* first input
C26_Witness ==
  /\ Len(EngClusters) = 1
  /\ Len(eng.image_ids) = 3 /\ eng.cap = 2
  /\ Len(EngClusters[1].members) = 2
  /\ EngClusters[1].hero_image_id # eng.image_ids[1]
  /\ eng.embs[1] # eng.embs[2]

\* C27: for every input with fewer than min_samples images, zero images
\* included, cluster_images returns the empty list and does not raise.
C27_TooFewImagesEmpty ==
  (eng.done /\ Len(eng.image_ids) = Len(eng.embs) /\ Len(eng.image_ids) < eng.min_samples)
    => eng.out.raises = None /\ eng.out.clusters = <<>>

\* two images that would form a cluster, min_samples = 3: no cluster
C27_Witness ==
  /\ eng.done
  /\ Len(eng.image_ids) = 2 /\ eng.embs = <<E1, E1>> /\ eng.min_samples = 3
  /\ eng.out.clusters = <<>>

\* C28: cluster_images called with a number of ids different from the number
\* of embedding rows raises the invalid-input error before any clustering,
\* also when the number of ids is below min_samples, and gives no clusters
\* and touches neither the streams nor the store.
C28_MismatchRaises ==
  /\ []((eng.done /\ Len(eng.image_ids) # Len(eng.embs))
          => eng.out.raises = "ValueError" /\ eng.out.clusters = <<>>)
  /\ [][(eng' # eng) => UNCHANGED <<stream, dlq, pel, last_delivered, store>>]_vars

\* one id, three rows, min_samples = 2: the error, not the empty list
C28_Witness ==
  /\ eng.done
  /\ Len(eng.image_ids) = 1 /\ Len(eng.embs) = 3 /\ eng.min_samples = 2
  /\ eng.out.raises = "ValueError"

\* C29: within each cluster members come by descending score, and members
\* with equal scores keep ascending input index; so with all scores equal
\* the hero is the cluster's first input.
C29_TiesKeepInputOrder ==
  \A n \in 1 .. Len(EngClusters) :
    \A k \in 1 .. Len(EngClusters[n].members) - 1 :
      LET a == EngClusters[n].members[k]
          b == EngClusters[n].members[k + 1]
      IN \/ a.score > b.score
         \/ a.score = b.score /\ InputIndex(a.image_id) < InputIndex(b.image_id)

\* C30: in every persisted ClusterState metrics.num_images is the number of
\* listed image ids that had a usable embedding, the ids given to the
\* clustering engine, not the number of ids listed.
C30_NumImagesCountsEmbedded ==
  \A w \in Workers :
    loc[w].persisted > 0
      => GetClusterState(store, loc[w].state.pet_id).metrics.num_images = loc[w].valid

\* the mean of the quality_score of the clusters of a state
MeanQuality(clusters) ==
  SumSeq([ n \in 1 .. Len(clusters) |-> clusters[n].quality_score ]) \div Len(clusters)

\* C31: in every persisted ClusterState avg_quality is the mean of the
\* quality_score of its clusters, and 0, with num_clusters = 0 and no
\* clusters, when nothing clustered; a job with usable embeddings and no
\* cluster still persists its state and is acked as success.
C31_AvgQualityIsMean ==
  /\ \A p \in NumericPets :
       store[p].present
         => LET s == GetClusterState(store, p)
            IN /\ s.metrics.num_clusters = Len(s.clusters)
               /\ s.metrics.avg_quality =
                    (IF s.clusters = <<>> THEN 0 ELSE MeanQuality(s.clusters))
  /\ \A w \in Workers :
       (/\ Finished(w)
        /\ loc[w].valid > 0
        /\ loc[w].state # NoState
        /\ loc[w].state.clusters = <<>>
        /\ ~loc[w].persist_failed)
         => /\ loc[w].persisted = 1
            /\ GetClusterState(store, loc[w].state.pet_id) = loc[w].state
            /\ loc[w].state.metrics.avg_quality = 0
            /\ loc[w].results = <<"success">>
            /\ Acked(CurId(w))

\* two usable embeddings that are both noise: the state with no cluster is
\* stored and the entry acked as success
C31_Witness ==
  /\ Finished("w1")
  /\ loc["w1"].valid = 2
  /\ loc["w1"].state.clusters = <<>>
  /\ loc["w1"].persisted = 1
  /\ loc["w1"].results = <<"success">>
  /\ GetClusterState(store, "1").metrics.avg_quality = 0

\* worker w ends an entry in this step: record_stream_metrics runs
Records(w) == pc[w] = "metrics" /\ pc'[w] # "metrics"

\* C32 as stated: after every entry, whatever its outcome, the gauges are
\* refreshed, the pending gauge to the group's pending count; if a pending
\* inspection raises a response error both gauges are 0; no error reaches
\* the loop.
C32_GaugesZeroOnAnyError ==
  [][\A w \in Workers :
       Records(w)
         => /\ IF xpending_exc' = NoXPendingExc
               THEN pending_gauge' = XPendingCount(pel)
               ELSE pending_gauge' = 0 /\ lag_gauge' = 0
            /\ loc[w].crash \/ pc'[w] \in {"read", "handle"}]_vars

\* C32, amended: after every entry, whatever its outcome, the gauges are
\* refreshed; if XPENDING raises a response error both gauges are 0; if only
\* the range inspection raises one, the lag gauge is 0 and the pending gauge
\* is the group's pending count, as it is when nothing raises; no such
\* error reaches the loop.
C32_GaugesRefreshed ==
  [][\A w \in Workers :
       Records(w)
         => /\ IF xpending_exc'.summary # None
               THEN pending_gauge' = 0 /\ lag_gauge' = 0
               ELSE /\ pending_gauge' = XPendingCount(pel)
                    /\ lag_gauge' = IF xpending_exc'.range # None THEN 0
                                    ELSE OldestIdle(pel, Now)
            /\ loc[w].crash \/ pc'[w] \in {"read", "handle"}]_vars

\* an entry was left pending, the range inspection raised: the pending gauge
\* shows the entry, the lag gauge is 0, and the loop goes on
C32_Witness ==
  /\ xpending_exc.range = "ResponseError"
  /\ pending_gauge = 1 /\ lag_gauge = 0
  /\ pel # {}
  /\ pc["w1"] = "read"

\* two states that differ in updated_at at most (processed_at is left out
\* of the metrics)
SameButTimes(s, t) == [s EXCEPT !.updated_at = 0] = [t EXCEPT !.updated_at = 0]

C34_PersistBeforeSuccessAck ==
  /\ [](\A w \in Workers :
          /\ (loc[w].results = <<"success">>)
               => /\ loc[w].persisted = 1
                  /\ loc[w].posted + loc[w].post_failed = Len(loc[w].updates)
          /\ (loc[w].posted + loc[w].post_failed > 0) => loc[w].persisted = 1
          /\ (CurId(w) # 0 /\ loc[w].persisted = 1 /\ loc[w].acks = 0)
               => ~Acked(CurId(w)))
  /\ [][\A w \in Workers :
          (loc'[w].results = <<"success">> /\ loc[w].results = <<>>)
            => /\ pc[w] = "ack"
               /\ loc[w].persisted = 1
               /\ GetClusterState(store, loc[w].state.pet_id) # NoState
               /\ ~Acked(CurId(w)) /\ Acked(CurId(w))']_vars

\* the worker stopped after the persist and before the ack: the state is
\* stored and the entry is still pending
C34_Witness ==
  \E w \in Workers :
    /\ pc[w] = "stopped"
    /\ loc[w].persisted = 1 /\ loc[w].acks = 0
    /\ loc[w].posted + loc[w].post_failed = Len(loc[w].updates)
    /\ loc[w].updates # <<>>
    /\ GetClusterState(store, loc[w].state.pet_id) = loc[w].state
    /\ ~Acked(CurId(w))


\* C35: the group-ready flag of a ClusterService is true only if the
\* consumer group exists: a creation that fails with an error other than
\* BUSYGROUP leaves the flag false, so that a later call creates the group.
C35_ReadyOnlyIfGroupExists ==
  \A p \in Workers \cup {Api} : group_ready[p] => group_exists


\* the entries of s that s2 no longer holds
Removed(s, s2) ==
  { k \in 1 .. Len(s) : ~\E j \in 1 .. Len(s2) : s2[j] = s[k] }

\* C36: publishing to the main stream (enqueue or retry) never removes an
\* entry that has not yet been delivered to the consumer group, even when
\* more than cluster_stream_maxlen jobs are outstanding.
C36_PublishKeepsUndelivered ==
  [][\A k \in Removed(stream, stream') : stream[k].id <= last_delivered]_vars

\* C36, amended: a publish removes an undelivered entry only from a stream
\* that already held cluster_stream_maxlen entries; the entries removed are
\* the oldest, and cluster_stream_maxlen newer entries stay.
C36_UndeliveredLostOnlyWhenFull ==
  [][\A k \in Removed(stream, stream') :
       /\ Len(stream) >= stream_maxlen
       /\ Len(stream') >= stream_maxlen
       /\ \A j \in 1 .. Len(stream') : stream'[j].id > stream[k].id]_vars

\* an entry that was never delivered is no longer in the full stream
C36_Witness ==
  /\ Len(stream) = stream_maxlen
  /\ stream[1].id > last_delivered + 1


\* the main-stream entries whose envelope wraps the dump of a
\* ClusterJobRequest, the only payload the front door passes to enqueue_job
FrontDoorEntries(s) ==
  { k \in 1 .. Len(s) : s[k].text.kind = "object"
                         /\ s[k].text.env.payload = PlainPayload }

\* C37: for jobs submitted through the front door every envelope in the
\* main stream carries 0 <= attempts < cluster_max_attempts; a submitted
\* entry has attempts 0, and a worker republishes only envelopes with
\* 1 <= attempts < cluster_max_attempts.
C37_AttemptsInRange ==
  /\ [](\A k \in FrontDoorEntries(stream) :
          /\ stream[k].text.env.attempts >= 0
          /\ stream[k].text.env.attempts < cluster_max_attempts)
  /\ [][(last_id' # last_id) =>
          LET new == stream'[Len(stream')].text
          IN IF submitted' # submitted
             THEN (new.env.payload = PlainPayload) => new.env.attempts = 0
             ELSE /\ new.kind = "object"
                  /\ new.env.attempts >= 1
                  /\ new.env.attempts < cluster_max_attempts]_vars

\* a job that came through the front door is in the stream for its last
\* attempt
C37_Witness ==
  \E k \in FrontDoorEntries(stream) :
    /\ stream[k].text.env.job_id = submitted
    /\ submitted >= 1
    /\ stream[k].text.env.pet_id \in NumericPets
    /\ stream[k].text.env.attempts = cluster_max_attempts - 1


\* C38: only a successful job changes the state store: when an entry ends
\* as invalid, skipped, unacked, retried or dead-lettered, the ClusterState
\* stored for its subject is present and valued as before the entry was
\* handled.
C38_OnlySuccessChangesStore ==
  /\ [](\A w \in Workers :
          /\ (Finished(w) /\ loc[w].results # <<"success">>)
               => /\ loc[w].persisted = 0
                  /\ store = loc[w].store0
          /\ (loc[w].persisted = 1)
               => loc[w].results \in {<<>>, <<"success">>})
  /\ [][(store' # store) =>
          \E w \in Workers :
            /\ pc[w] = "persist" /\ pc'[w] \in {"writeback", "ack"}
            /\ store' = PersistClusterState(store, loc[w].state)]_vars

\* a job was skipped while the store held the state of an earlier job
C38_Witness ==
  \E w \in Workers :
    /\ Finished(w) /\ loc[w].results = <<"skipped">>
    /\ loc[w].env.pet_id \in NumericPets
    /\ store[StateKey(loc[w].env.pet_id)].present
    /\ store = loc[w].store0


\* C39: whenever the worker is between entries the failure counter equals
\* the sum of the retry and dead_letter counters: every failed entry counts
\* failure once and then exactly one of retry and dead_letter, and no other
\* path counts any of the three.
C39_FailureIsRetryPlusDeadLetter ==
  /\ \A w \in Workers1 :
       (pc[w] \in {"read", "handle"})
         => counters["failure"] = counters["retry"] + counters["dead_letter"]
  /\ \A w \in Workers :
       Finished(w)
         => IF raised[CurId(w)] = 1
            THEN loc[w].results \in { <<"failure", "retry">>,
                                      <<"failure", "dead_letter">> }
            ELSE \A k \in 1 .. Len(loc[w].results) :
                   loc[w].results[k] \notin {"failure", "retry", "dead_letter"}


\* entry id was handed to a consumer by a read of new entries
Delivered(id) ==
  \/ handled[id] >= 1
  \/ \E w \in Workers : \E j \in 1 .. Len(batch[w]) : batch[w][j].id = id

\* C40: the consumer group is created at the stream origin (id 0), so every
\* entry appended before the group was created is delivered by the reads of
\* new entries that follow; none of them is skipped.
C40_GroupReadsFromOrigin ==
  /\ [](group_exists =>
          \A k \in 1 .. Len(stream) :
            (stream[k].id <= last_delivered) => Delivered(stream[k].id))
  /\ [][(~group_exists /\ group_exists')
          => /\ last_delivered' = 0
             /\ \A k \in 1 .. Len(stream) : ~Delivered(stream[k].id)]_vars
  /\ [][(group_exists /\ last_delivered' # last_delivered)
          => \E w \in Workers :
               /\ pc[w] = "read"
               /\ batch'[w] # <<>>
               /\ \A k \in 1 .. Len(stream) :
                    (stream[k].id > last_delivered)
                      => \E j \in 1 .. Len(batch'[w]) : batch'[w][j] = stream[k]]_vars

\* an entry that was in the stream before the group existed was handled
C40_Witness ==
  /\ group_exists
  /\ submitted = 0
  /\ 1 \in DOMAIN handled
  /\ handled[1] >= 1
  /\ last_delivered >= 1

====
